---------------------------- MODULE Spec2Model ----------------------------
(***************************************************************************)
(* Model of umuxpkt (src/src/main.rs): the TLV codec, the fixed header,     *)
(* the Header composer and the PacketMaker.  A run exercises one of the     *)
(* three (unit): a PacketMaker that is called repeatedly, a Header that is *)
(* written and buffers that are read, or the TLV codec on a buffer.        *)
(*                                                                         *)
(* Representation of the machine integers.  TLC's integers are 32 bit      *)
(* signed, so a u32 is the pair <<hi, lo>> of its 16-bit halves and a u64  *)
(* the tuple <<w3, w2, w1, w0>> of its 16-bit words, most significant      *)
(* first; u8 and u16 are naturals.  Byte buffers are sequences of 0..255.  *)
(* A panic of the Rust code is the outcome [status |-> "panic"] with the   *)
(* cause in err; the panicking call returns nothing to its caller.         *)
(***************************************************************************)
EXTENDS Integers, Sequences

VARIABLES
    unit,             \* the component this run exercises: "PacketMaker", "Header" or "TLV"
    overflow_checks,  \* build profile: TRUE = arithmetic overflow panics (debug), FALSE = wraps (release)
    maker,            \* the PacketMaker: [srcid, seqno, tlvs]
    res,              \* outcome of the last PacketMaker::make call, with its payload and the maker before it
    hist,             \* outcomes of the make calls before the last one, oldest first
    ncalls,           \* number of make calls so far
    hdr,              \* Header value handed to Header::as_bytes
    buf,              \* byte buffer: written by Header::as_bytes or received from outside
    wr,               \* outcome of the last Header::as_bytes
    rd,               \* outcome of the last Header::from_bytes
    tin,              \* TLV codec input: a byte buffer
    tout              \* outcome of the last TLV codec operation

vars == <<unit, overflow_checks, maker, res, hist, ncalls, hdr, buf, wr, rd, tin, tout>>

---------------------------------------------------------------------------
(* Program constants                                                       *)

U8_MAX == 255
U16_MAX == 65535
HEADER_VERSION == 1
HeaderNoTLV_len == 16

\* 0x810b00ff as <<hi, lo>>
HEADER_MAGIC == <<33035, 255>>

---------------------------------------------------------------------------
(* Integer and byte helpers                                                *)

\* BufMut::put_bytes(b, n)
Fill(b, n) == [i \in 1..n |-> b]

\* unaligned::U16Be / BufMut::put_u16: big-endian bytes of a u16
U16Be_bytes(x) == <<x \div 256, x % 256>>

\* unaligned::U32Be / BufMut::put_u32: big-endian bytes of a u32 <<hi, lo>>
U32Be_bytes(x) == U16Be_bytes(x[1]) \o U16Be_bytes(x[2])

\* unaligned::U64Be: big-endian bytes of a u64 <<w3, w2, w1, w0>>
U64Be_bytes(x) == U16Be_bytes(x[1]) \o U16Be_bytes(x[2]) \o U16Be_bytes(x[3]) \o U16Be_bytes(x[4])

\* Buf::get_u16 at offset i (0-based) of b
get_u16(b, i) == b[i + 1] * 256 + b[i + 2]

\* Buf::get_u32 at offset i
get_u32(b, i) == <<get_u16(b, i), get_u16(b, i + 2)>>

\* Buf::get_u64 at offset i
get_u64(b, i) == <<get_u16(b, i), get_u16(b, i + 2), get_u16(b, i + 4), get_u16(b, i + 6)>>

\* x & 0x0000FFFFFFFFFFFF on a u64
mask48(x) == <<0, x[2], x[3], x[4]>>

\* u16::try_from(n) succeeds (payload.len().try_into(), line 24)
u16_fits_off_by_one(n) == n < U16_MAX

u16_fits(n) == n <= U16_MAX

\* u8::try_from(n) succeeds (lines 27 and 83)
u8_fits(n) == n <= U8_MAX

\* &b[i..j] (0-based, j exclusive)
Slice(b, i, j) == SubSeq(b, i + 1, j)

---------------------------------------------------------------------------
(* enum TLV                                                                *)

Timestamp(x) == [kind |-> "Timestamp", val |-> x]
Null == [kind |-> "Null", val |-> <<>>]
Payloadshape(s) == [kind |-> "Payloadshape", val |-> s]
ChannelOffset(x) == [kind |-> "ChannelOffset", val |-> x]
PayloadLabel6Char(a) == [kind |-> "PayloadLabel6Char", val |-> a]

TLV_len8bytes(t) == 1

\* (self.len8bytes()*8).into(): the product is a u8
TLV_len(t) == (TLV_len8bytes(t) * 8) % 256

TLV_tag(t) ==
    CASE t.kind = "Timestamp" -> 17
      [] t.kind = "Null" -> 0
      [] t.kind = "Payloadshape" -> 34
      [] t.kind = "ChannelOffset" -> 35
      [] t.kind = "PayloadLabel6Char" -> 41

TLV_write_to_nolen(t, b) ==
    b \o <<TLV_tag(t), 0>> \o
    CASE t.kind = "Timestamp" -> Slice(U64Be_bytes(t.val), 2, 8)
      [] t.kind = "Null" -> Fill(0, 6)
      [] t.kind = "Payloadshape" ->
            U16Be_bytes(t.val[1]) \o U16Be_bytes(t.val[2]) \o U16Be_bytes(t.val[3])
      [] t.kind = "ChannelOffset" -> Fill(0, 2) \o U32Be_bytes(t.val)
      [] t.kind = "PayloadLabel6Char" -> t.val

\* TLV::write_to: appends tag, length unit and the six value bytes to b
TLV_write_to(t, b) ==
    b \o <<TLV_tag(t), TLV_len8bytes(t)>> \o
    CASE t.kind = "Timestamp" -> Slice(U64Be_bytes(t.val), 2, 8)
      [] t.kind = "Null" -> Fill(0, 6)
      [] t.kind = "Payloadshape" ->
            U16Be_bytes(t.val[1]) \o U16Be_bytes(t.val[2]) \o U16Be_bytes(t.val[3])
      [] t.kind = "ChannelOffset" -> Fill(0, 2) \o U32Be_bytes(t.val)
      [] t.kind = "PayloadLabel6Char" -> t.val

\* TLV::as_bytes
TLV_as_bytes(t) == TLV_write_to(t, <<>>)

TLV_try_from_bytes_keep64(b) ==
    IF Len(b) < 8 THEN [status |-> "ok", err |-> "", tlv |-> <<>>, rest |-> b]
    ELSE LET tag == b[1]
             ok(t) == [status |-> "ok", err |-> "", tlv |-> <<t>>, rest |-> Slice(b, 8, Len(b))]
             bad(e) == [status |-> "panic", err |-> e, tlv |-> <<>>, rest |-> <<>>]
         IN CASE tag = 0 -> ok(Null)
              [] tag = 17 -> ok(Timestamp(get_u64(b, 0)))
              [] tag = 34 -> ok(Payloadshape(<<get_u16(b, 2), get_u16(b, 4), get_u16(b, 6)>>))
              [] tag = 35 -> ok(ChannelOffset(get_u32(b, 4)))
              [] tag = 41 -> IF b[2] = 1 THEN ok(PayloadLabel6Char(Slice(b, 2, 8)))
                             ELSE bad("UnsupportedTlvLength")
              [] OTHER -> bad("UnknownTlvTag")

\* TLV::try_from_bytes: tlv is <<>> for None and <<t>> for Some(t); the
\* panics of lines 200 and 203 are the outcomes UnsupportedTlvLength and
\* UnknownTlvTag
TLV_try_from_bytes(b) ==
    IF Len(b) < 8 THEN [status |-> "ok", err |-> "", tlv |-> <<>>, rest |-> b]
    ELSE LET tag == b[1]
             ok(t) == [status |-> "ok", err |-> "", tlv |-> <<t>>, rest |-> Slice(b, 8, Len(b))]
             bad(e) == [status |-> "panic", err |-> e, tlv |-> <<>>, rest |-> <<>>]
         IN CASE tag = 0 -> ok(Null)
              [] tag = 17 -> ok(Timestamp(mask48(get_u64(b, 0))))
              [] tag = 34 -> ok(Payloadshape(<<get_u16(b, 2), get_u16(b, 4), get_u16(b, 6)>>))
              [] tag = 35 -> ok(ChannelOffset(get_u32(b, 4)))
              [] tag = 41 -> IF b[2] = 1 THEN ok(PayloadLabel6Char(Slice(b, 2, 8)))
                             ELSE bad("UnsupportedTlvLength")
              [] OTHER -> bad("UnknownTlvTag")

RECURSIVE vec_loop(_, _)
\* the loop of TLV::vec_from_bytes with v the TLVs pushed so far
vec_loop(b, v) ==
    LET r == TLV_try_from_bytes(b)
    IN IF r.status = "panic" THEN [status |-> "panic", err |-> r.err, tlvs |-> <<>>]
       ELSE IF r.tlv = <<>> THEN [status |-> "ok", err |-> "", tlvs |-> v]
       ELSE vec_loop(r.rest, Append(v, r.tlv[1]))

RECURSIVE vec_loop_skip(_, _)
vec_loop_skip(b, v) ==
    LET r == TLV_try_from_bytes(b)
    IN IF r.status = "panic" THEN
            IF Len(b) >= 16 THEN vec_loop_skip(Slice(b, 8, Len(b)), v)
            ELSE [status |-> "ok", err |-> "", tlvs |-> v]
       ELSE IF r.tlv = <<>> THEN [status |-> "ok", err |-> "", tlvs |-> v]
       ELSE vec_loop_skip(r.rest, Append(v, r.tlv[1]))

TLV_vec_from_bytes_skip(b) == vec_loop_skip(b, <<>>)

\* TLV::vec_from_bytes
TLV_vec_from_bytes(b) == vec_loop(b, <<>>)

---------------------------------------------------------------------------
(* struct HeaderNoTLV                                                      *)

HeaderNoTLV(v, hl, pl, mg, src, seq) ==
    [version |-> v, headerlength |-> hl, payloadlength |-> pl,
     magic |-> mg, srcid |-> src, seqno |-> seq]

\* BytesCast::as_bytes of the repr(C) struct: the fields in declaration order
HeaderNoTLV_as_bytes(h) ==
    <<h.version, h.headerlength>> \o U16Be_bytes(h.payloadlength) \o
    U32Be_bytes(h.magic) \o U32Be_bytes(h.srcid) \o U32Be_bytes(h.seqno)

\* BytesCast::from_bytes: the struct read from the first 16 bytes and the rest
HeaderNoTLV_from_bytes(b) ==
    IF Len(b) < HeaderNoTLV_len
    THEN [status |-> "err", h |-> <<>>, rest |-> <<>>]
    ELSE [status |-> "ok",
          h |-> <<HeaderNoTLV(b[1], b[2], get_u16(b, 2), get_u32(b, 4),
                              get_u32(b, 8), get_u32(b, 12))>>,
          rest |-> Slice(b, HeaderNoTLV_len, Len(b))]

---------------------------------------------------------------------------
(* struct Header                                                           *)

Header(h, tlvs) == [header_no_tlv |-> h, tlvs |-> tlvs]

RECURSIVE sum_len(_)
\* tlvs.iter().map(|x| x.len()).sum()
sum_len(tlvs) == IF tlvs = <<>> THEN 0 ELSE TLV_len(Head(tlvs)) + sum_len(Tail(tlvs))

RECURSIVE write_tlvs(_, _)
\* for tlv in tlvs.iter() { tlv.write_to(buf) }
write_tlvs(tlvs, b) ==
    IF tlvs = <<>> THEN b ELSE write_tlvs(Tail(tlvs), TLV_write_to(Head(tlvs), b))

\* Header::len
Header_len(h) == sum_len(h.tlvs) + HeaderNoTLV_len

Header_write_to_stale(h, b) ==
    IF ~u8_fits(Header_len(h))
    THEN [status |-> "panic", err |-> "HeaderLengthOverflow", bytes |-> b]
    ELSE [status |-> "ok", err |-> "",
          bytes |-> write_tlvs(h.tlvs, b \o HeaderNoTLV_as_bytes(h.header_no_tlv))]

\* Header::write_to on a buffer holding b; the unwrap of line 83 panics
\* (HeaderLengthOverflow) before anything is put into the buffer
Header_write_to(h, b) ==
    IF ~u8_fits(Header_len(h))
    THEN [status |-> "panic", err |-> "HeaderLengthOverflow", bytes |-> b]
    ELSE LET header_no_tlv_correct_len ==
                 [h.header_no_tlv EXCEPT !.headerlength = Header_len(h)]
         IN [status |-> "ok", err |-> "",
             bytes |-> write_tlvs(h.tlvs, b \o HeaderNoTLV_as_bytes(header_no_tlv_correct_len))]

\* Header::as_bytes
Header_as_bytes(h) == Header_write_to(h, <<>>)

Header_from_bytes_whole_rest(b, checks) ==
    LET result == HeaderNoTLV_from_bytes(b)
        bad(e) == [status |-> "panic", err |-> e, header |-> <<>>]
    IN IF result.status = "err" THEN bad("TruncatedHeader")
       ELSE LET header_no_tlv == result.h[1]
                rest == result.rest
            IN IF header_no_tlv.headerlength < HeaderNoTLV_len
               THEN IF checks THEN bad("HeaderLengthUnderflow")
                    ELSE bad("SliceIndexOutOfRange")
               ELSE LET tlv_len == header_no_tlv.headerlength - HeaderNoTLV_len
                    IN IF tlv_len > Len(rest) THEN bad("SliceIndexOutOfRange")
                       ELSE LET t == TLV_vec_from_bytes(rest)
                            IN IF t.status = "panic" THEN bad(t.err)
                               ELSE [status |-> "ok", err |-> "",
                                     header |-> <<Header(header_no_tlv, t.tlvs)>>]

\* Header::from_bytes.  Line 97 panics on a buffer shorter than 16 bytes
\* (TruncatedHeader).  headerlength < 16 makes the usize subtraction of line
\* 98 overflow: a build with overflow checks panics there
\* (HeaderLengthUnderflow); a build without them wraps to 2^64 - (16 -
\* headerlength), which exceeds every slice length, so the slicing of line
\* 99 panics (SliceIndexOutOfRange), as it does whenever tlv_len exceeds
\* rest.len().
Header_from_bytes(b, checks) ==
    LET result == HeaderNoTLV_from_bytes(b)
        bad(e) == [status |-> "panic", err |-> e, header |-> <<>>]
    IN IF result.status = "err" THEN bad("TruncatedHeader")
       ELSE LET header_no_tlv == result.h[1]
                rest == result.rest
            IN IF header_no_tlv.headerlength < HeaderNoTLV_len
               THEN IF checks THEN bad("HeaderLengthUnderflow")
                    ELSE bad("SliceIndexOutOfRange")
               ELSE LET tlv_len == header_no_tlv.headerlength - HeaderNoTLV_len
                    IN IF tlv_len > Len(rest) THEN bad("SliceIndexOutOfRange")
                       ELSE LET t == TLV_vec_from_bytes(Slice(rest, 0, tlv_len))
                            IN IF t.status = "panic" THEN bad(t.err)
                               ELSE [status |-> "ok", err |-> "",
                                     header |-> <<Header(header_no_tlv, t.tlvs)>>]

---------------------------------------------------------------------------
(* Payloads and packets.  A payload of 65535 or 65536 bytes and the packet  *)
(* made from it are byte strings kept as run lists: <<b, n>> stands for n   *)
(* >= 1 bytes b, and adjacent runs hold different bytes, so that equal byte *)
(* strings are equal run lists.                                            *)

RECURSIVE RunSum(_, _, _)
\* the number of bytes of the runs lo..hi of r
RunSum(r, lo, hi) ==
    IF lo > hi THEN 0
    ELSE IF lo = hi THEN r[lo][2]
    ELSE LET mid == (lo + hi) \div 2
         IN RunSum(r, lo, mid) + RunSum(r, mid + 1, hi)

\* Vec::len / slice len: the number of bytes
RunLen(r) == RunSum(r, 1, Len(r))

\* BytesMut::put_slice: the bytes of a followed by the bytes of b
RunCat(a, b) ==
    IF a = <<>> THEN b
    ELSE IF b = <<>> THEN a
    ELSE IF a[Len(a)][1] = b[1][1]
         THEN SubSeq(a, 1, Len(a) - 1) \o <<<<b[1][1], a[Len(a)][2] + b[1][2]>>>> \o Tail(b)
         ELSE a \o b

RECURSIVE RunsOf(_)
\* the run list of the byte sequence s
RunsOf(s) ==
    IF s = <<>> THEN <<>>
    ELSE IF Len(s) = 1 THEN <<<<s[1], 1>>>>
    ELSE LET mid == Len(s) \div 2
         IN RunCat(RunsOf(SubSeq(s, 1, mid)), RunsOf(SubSeq(s, mid + 1, Len(s))))

RECURSIVE RunTake(_, _)
\* the first k bytes as a byte sequence
RunTake(r, k) ==
    IF k = 0 \/ r = <<>> THEN <<>>
    ELSE IF Len(r) = 1 THEN Fill(r[1][1], IF k < r[1][2] THEN k ELSE r[1][2])
    ELSE LET mid == Len(r) \div 2
             left == SubSeq(r, 1, mid)
             n == RunLen(left)
         IN IF k <= n THEN RunTake(left, k)
            ELSE RunTake(left, n) \o RunTake(SubSeq(r, mid + 1, Len(r)), k - n)

RECURSIVE RunDrop(_, _)
\* what follows the first k bytes
RunDrop(r, k) ==
    IF k = 0 \/ r = <<>> THEN r
    ELSE IF Len(r) = 1 THEN (IF k >= r[1][2] THEN <<>> ELSE <<<<r[1][1], r[1][2] - k>>>>)
    ELSE LET mid == Len(r) \div 2
             left == SubSeq(r, 1, mid)
             right == SubSeq(r, mid + 1, Len(r))
             n == RunLen(left)
         IN IF k >= n THEN RunDrop(right, k - n) ELSE RunDrop(left, k) \o right

---------------------------------------------------------------------------
(* struct PacketMaker                                                      *)

\* PacketMaker::new
PacketMaker_new(srcid, tlvs) == [srcid |-> srcid, seqno |-> <<0, 0>>, tlvs |-> tlvs]

U32_MAX == <<65535, 65535>>

u32_inc_low_half_only(x) == <<x[1], (x[2] + 1) % 65536>>

\* x + 1 on a u32, wrapping
u32_wrapping_inc(x) ==
    IF x[2] < 65535 THEN <<x[1], x[2] + 1>> ELSE <<(x[1] + 1) % 65536, 0>>

PacketMaker_make_count_first(m, payload, checks) ==
    LET len_tlvs == sum_len(m.tlvs)
        headerlength == len_tlvs + HeaderNoTLV_len
        m1 == [m EXCEPT !.seqno = u32_wrapping_inc(m.seqno)]
        fail(e, w) == [status |-> "panic", err |-> e, bytes |-> <<>>, written |-> w,
                       maker |-> m1]
    IN IF ~u16_fits(RunLen(payload)) THEN fail("PayloadLengthOverflow", <<>>)
       ELSE IF ~u8_fits(headerlength) THEN fail("HeaderLengthOverflow", <<>>)
       ELSE LET header_no_tlv ==
                    HeaderNoTLV(HEADER_VERSION, headerlength, RunLen(payload),
                                HEADER_MAGIC, m.srcid, m.seqno)
                b == RunCat(RunsOf(write_tlvs(m.tlvs, HeaderNoTLV_as_bytes(header_no_tlv))),
                            payload)
            IN IF m.seqno = U32_MAX /\ checks THEN fail("SeqnoOverflow", b)
               ELSE [status |-> "ok", err |-> "", bytes |-> b, written |-> b,
                     maker |-> m1]

PacketMaker_make_next_seqno(m, payload, checks) ==
    LET len_tlvs == sum_len(m.tlvs)
        headerlength == len_tlvs + HeaderNoTLV_len
        fail(e, w) == [status |-> "panic", err |-> e, bytes |-> <<>>, written |-> w,
                       maker |-> m]
    IN IF ~u16_fits(RunLen(payload)) THEN fail("PayloadLengthOverflow", <<>>)
       ELSE IF ~u8_fits(headerlength) THEN fail("HeaderLengthOverflow", <<>>)
       ELSE LET header_no_tlv ==
                    HeaderNoTLV(HEADER_VERSION, headerlength, RunLen(payload),
                                HEADER_MAGIC, m.srcid, u32_wrapping_inc(m.seqno))
                b == RunCat(RunsOf(write_tlvs(m.tlvs, HeaderNoTLV_as_bytes(header_no_tlv))),
                            payload)
            IN IF m.seqno = U32_MAX /\ checks THEN fail("SeqnoOverflow", b)
               ELSE [status |-> "ok", err |-> "", bytes |-> b, written |-> b,
                     maker |-> [m EXCEPT !.seqno = u32_wrapping_inc(m.seqno)]]

\* PacketMaker::make.  payload and the packet are run lists.  written is
\* what has been put into the local output buffer when the call ends, bytes
\* what the caller receives, maker the PacketMaker after the call.  The
\* unwraps of lines 24 and 27 panic
\* (PayloadLengthOverflow, HeaderLengthOverflow); self.seqno += 1 at
\* u32::MAX panics in a build with overflow checks (SeqnoOverflow) and
\* wraps to 0 otherwise.
PacketMaker_make(m, payload, checks) ==
    LET len_tlvs == sum_len(m.tlvs)
        headerlength == len_tlvs + HeaderNoTLV_len
        fail(e, w) == [status |-> "panic", err |-> e, bytes |-> <<>>, written |-> w,
                       maker |-> m]
    IN IF ~u16_fits(RunLen(payload)) THEN fail("PayloadLengthOverflow", <<>>)
       ELSE IF ~u8_fits(headerlength) THEN fail("HeaderLengthOverflow", <<>>)
       ELSE LET header_no_tlv ==
                    HeaderNoTLV(HEADER_VERSION, headerlength, RunLen(payload),
                                HEADER_MAGIC, m.srcid, m.seqno)
                b == RunCat(RunsOf(write_tlvs(m.tlvs, HeaderNoTLV_as_bytes(header_no_tlv))),
                            payload)
            IN IF m.seqno = U32_MAX /\ checks THEN fail("SeqnoOverflow", b)
               ELSE [status |-> "ok", err |-> "", bytes |-> b, written |-> b,
                     maker |-> [m EXCEPT !.seqno = u32_wrapping_inc(m.seqno)]]


---------------------------------------------------------------------------
(* Inputs                                                                  *)

MaxCalls == 3
MaxListLen == 2

SrcIds == {<<0, 0>>, <<43981, 4660>>}

\* seqno after construction, and after 2^32 - 2 successful calls
StartSeqnos == {<<0, 0>>, <<65535, 65534>>}

\* TLV values of every variant; TlvList(3) is the list of main
TlvPool ==
    <<Timestamp(<<0, 0, 0, 3>>), Null, Payloadshape(<<0, 8, 0>>),
      ChannelOffset(<<0, 16>>), PayloadLabel6Char(<<97, 98, 99, 0, 255, 1>>),
      Timestamp(<<0, 65535, 65535, 65535>>), Payloadshape(<<65535, 256, 1>>),
      ChannelOffset(<<65535, 65535>>)>>

\* Timestamp values of 2^48 and more
WideTimestamps == {Timestamp(<<1, 0, 0, 0>>), Timestamp(<<43981, 4660, 22136, 39612>>)}

\* the first n TLVs of the pool repeated
TlvList(n) == [i \in 1..n |-> TlvPool[((i - 1) % Len(TlvPool)) + 1]]

\* the largest TLV count whose header length fits the u8 field, and one more
FitTlvs == (U8_MAX - HeaderNoTLV_len) \div 8

StaticTlvs == {TlvList(0), TlvList(3), TlvList(FitTlvs), TlvList(FitTlvs + 1)}

\* no payload, the payload of main, payloads that look like TLVs, and the
\* longest payloads whose length fits the u16 field and one byte more
Payloads ==
    {<<>>, RunsOf(<<255>>), RunsOf(<<17, 1, 0, 0, 0, 0, 0, 9, 7>>),
     <<<<170, U16_MAX>>>>, <<<<1, 2>>, <<255, U16_MAX - 2>>>>,
     <<<<170, U16_MAX + 1>>>>}

NoRes == [status |-> "none", err |-> "", bytes |-> <<>>, written |-> <<>>,
          payload |-> <<>>, before |-> PacketMaker_new(<<0, 0>>, <<>>)]

IdleMaker == PacketMaker_new(<<0, 0>>, <<>>)
IdleHeader == Header(HeaderNoTLV(0, 0, 0, <<0, 0>>, <<0, 0>>, <<0, 0>>), <<>>)
NoWr == [status |-> "none", err |-> "", bytes |-> <<>>]
NoRd == [status |-> "none", err |-> "", header |-> <<>>, input |-> <<>>]
NoTout == [op |-> "none", arg |-> <<>>, slot |-> <<>>, status |-> "none", err |-> "",
           tlv |-> <<>>, rest |-> <<>>, tlvs |-> <<>>, bytes |-> <<>>]

---------------------------------------------------------------------------
(* PacketMaker runs                                                        *)

InitMaker ==
    /\ unit = "PacketMaker"
    /\ overflow_checks \in BOOLEAN
    /\ \E srcid \in SrcIds, tlvs \in StaticTlvs, s \in StartSeqnos :
          maker = [PacketMaker_new(srcid, tlvs) EXCEPT !.seqno = s]
    /\ res = NoRes /\ hist = <<>> /\ ncalls = 0
    /\ hdr = IdleHeader /\ buf = <<>> /\ wr = NoWr /\ rd = NoRd
    /\ tin = <<>> /\ tout = NoTout

\* one call maker.make(payload)
Make(payload) ==
    /\ unit = "PacketMaker"
    /\ ncalls < MaxCalls
    /\ LET r == PacketMaker_make(maker, payload, overflow_checks)
       IN /\ maker' = r.maker
          /\ res' = [status |-> r.status, err |-> r.err, bytes |-> r.bytes,
                     written |-> r.written, payload |-> payload, before |-> maker]
    /\ hist' = IF res.status = "none" THEN hist ELSE Append(hist, res)
    /\ ncalls' = ncalls + 1
    /\ UNCHANGED <<unit, overflow_checks, hdr, buf, wr, rd, tin, tout>>

---------------------------------------------------------------------------
(* Header runs                                                             *)

\* the fixed header of test_header_to_bytes (headerlength 0), one with a
\* stale headerlength, and one with every field at an arbitrary value
FixedHeaders ==
    {HeaderNoTLV(1, 0, 0, HEADER_MAGIC, <<0, 0>>, <<0, 0>>),
     HeaderNoTLV(1, 40, 1, HEADER_MAGIC, <<43981, 4660>>, <<0, 2>>),
     HeaderNoTLV(7, 200, 65535, <<57005, 48879>>, <<65535, 65535>>, <<65535, 65535>>)}

HeaderTlvPool ==
    {TlvPool[1], TlvPool[2], TlvPool[7], TlvPool[8], TlvPool[5]} \cup WideTimestamps

RECURSIVE SeqsUpTo(_, _)
\* the sequences over S of length at most n
SeqsUpTo(S, n) ==
    IF n = 0 THEN {<<>>}
    ELSE LET T == SeqsUpTo(S, n - 1)
         IN T \cup {Append(t, x) : t \in {u \in T : Len(u) = n - 1}, x \in S}

HeaderTlvLists ==
    SeqsUpTo(HeaderTlvPool, MaxListLen)
        \cup {TlvList(3), TlvList(FitTlvs), TlvList(FitTlvs + 1)}

Headers == {Header(h, tlvs) : h \in FixedHeaders, tlvs \in HeaderTlvLists}

\* 8-byte slots: well-formed, not canonical, unknown tag, label of two units
GoodSlot == <<17, 1, 0, 0, 0, 0, 0, 3>>
OddSlot == <<35, 9, 7, 7, 0, 0, 0, 16>>
NullSlot == <<0, 0, 1, 2, 3, 4, 5, 6>>
LabelSlot == <<41, 1, 97, 98, 99, 0, 255, 1>>
BadTagSlot == <<1, 1, 0, 0, 0, 0, 0, 3>>
BadLabelSlot == <<41, 2, 97, 98, 99, 100, 101, 102>>

\* what may follow a fixed header in a received buffer
Bodies ==
    {<<>>, GoodSlot, GoodSlot \o OddSlot, GoodSlot \o BadTagSlot,
     BadLabelSlot \o GoodSlot, GoodSlot \o <<1, 2, 3, 4>>,
     NullSlot \o LabelSlot \o GoodSlot, OddSlot \o <<255>>}

RawHeaderLengths == {0, 15, 16, 20, 24, 32, 255}

\* received buffers: a fixed header declaring hl, a body, cut to 15 bytes or whole
RawBuffers ==
    {<<>>} \cup
    UNION {LET b == HeaderNoTLV_as_bytes(
                        HeaderNoTLV(1, hl, 3, HEADER_MAGIC, <<0, 1>>, <<0, 2>>)) \o body
           IN {b, SubSeq(b, 1, 15)} : hl \in RawHeaderLengths, body \in Bodies}

\* payloads that follow a written header in a packet
PacketTails == {<<255>>, GoodSlot, BadTagSlot \o <<1, 2>>}

InitHeader ==
    /\ unit = "Header"
    /\ overflow_checks \in BOOLEAN
    /\ \/ hdr \in Headers /\ buf = <<>>
       \/ hdr = IdleHeader /\ buf \in RawBuffers
    /\ wr = NoWr /\ rd = NoRd
    /\ maker = IdleMaker /\ res = NoRes /\ hist = <<>> /\ ncalls = 0
    /\ tin = <<>> /\ tout = NoTout

\* buf = hdr.as_bytes()
HeaderAsBytes ==
    /\ unit = "Header"
    /\ LET r == Header_as_bytes(hdr)
       IN /\ wr' = r
          /\ buf' = IF r.status = "ok" THEN r.bytes ELSE buf
    /\ UNCHANGED <<unit, overflow_checks, maker, res, hist, ncalls, hdr, rd, tin, tout>>

\* a payload follows the written header in the buffer
AppendPayload(p) ==
    /\ unit = "Header"
    /\ wr.status = "ok" /\ buf = wr.bytes
    /\ buf' = buf \o p
    /\ UNCHANGED <<unit, overflow_checks, maker, res, hist, ncalls, hdr, wr, rd, tin, tout>>

\* Header::from_bytes(&buf)
HeaderFromBytes ==
    /\ unit = "Header"
    /\ LET r == Header_from_bytes(buf, overflow_checks)
       IN rd' = [status |-> r.status, err |-> r.err, header |-> r.header, input |-> buf]
    /\ UNCHANGED <<unit, overflow_checks, maker, res, hist, ncalls, hdr, buf, wr, tin, tout>>

---------------------------------------------------------------------------
(* TLV runs                                                                *)

MaxSlots == 2

SlotPool == {GoodSlot, OddSlot, NullSlot, LabelSlot, BadTagSlot, BadLabelSlot,
             <<34, 1, 255, 255, 1, 0, 0, 1>>, <<17, 3, 255, 254, 253, 252, 251, 250>>}

RECURSIVE Flatten(_)
Flatten(ss) == IF ss = <<>> THEN <<>> ELSE Head(ss) \o Flatten(Tail(ss))

\* every tag class with every length unit and value pattern, and buffers of
\* up to MaxSlots slots of the pool followed by nothing or by three bytes
TlvBuffers ==
    {<<tag, lu>> \o v : tag \in {0, 17, 34, 35, 41, 1, 255}, lu \in {0, 1, 2},
                        v \in {Fill(0, 6), <<0, 0, 0, 0, 0, 3>>, <<1, 2, 3, 4, 5, 6>>, Fill(255, 6)}}
    \cup {Flatten(ss) \o t : ss \in SeqsUpTo(SlotPool, MaxSlots), t \in {<<>>, <<17, 1, 0>>}}
    \cup {SubSeq(GoodSlot, 1, 7)}

InitTlv ==
    /\ unit = "TLV"
    /\ overflow_checks \in BOOLEAN
    /\ tin \in TlvBuffers
    /\ tout = NoTout
    /\ maker = IdleMaker /\ res = NoRes /\ hist = <<>> /\ ncalls = 0
    /\ hdr = IdleHeader /\ buf = <<>> /\ wr = NoWr /\ rd = NoRd

TlvOut(op, arg, slot, r) ==
    [op |-> op, arg |-> arg, slot |-> slot, status |-> r.status, err |-> r.err,
     tlv |-> r.tlv, rest |-> r.rest, tlvs |-> r.tlvs, bytes |-> r.bytes]

NoFields == [status |-> "ok", err |-> "", tlv |-> <<>>, rest |-> <<>>, tlvs |-> <<>>,
             bytes |-> <<>>]

\* (tlv, tin) = TLV::try_from_bytes(tin): one step of walking the buffer
TryFromBytes ==
    /\ unit = "TLV"
    /\ LET r == TLV_try_from_bytes(tin)
       IN /\ tout' = TlvOut("try_from_bytes", tin, <<>>,
                            [NoFields EXCEPT !.status = r.status, !.err = r.err,
                                             !.tlv = r.tlv, !.rest = r.rest])
          /\ tin' = IF r.status = "ok" THEN r.rest ELSE tin
    /\ UNCHANGED <<unit, overflow_checks, maker, res, hist, ncalls, hdr, buf, wr, rd>>

\* TLV::vec_from_bytes(tin)
VecFromBytes ==
    /\ unit = "TLV"
    /\ LET r == TLV_vec_from_bytes(tin)
       IN tout' = TlvOut("vec_from_bytes", tin, <<>>,
                         [NoFields EXCEPT !.status = r.status, !.err = r.err,
                                          !.tlvs = r.tlvs])
    /\ UNCHANGED <<unit, overflow_checks, maker, res, hist, ncalls, hdr, buf, wr, rd, tin>>

\* tlv.as_bytes() of the TLV just decoded from tout.arg
TlvAsBytes ==
    /\ unit = "TLV"
    /\ tout.op = "try_from_bytes" /\ tout.status = "ok" /\ tout.tlv # <<>>
    /\ tout' = TlvOut("as_bytes", tout.arg, SubSeq(tout.arg, 1, 8),
                      [NoFields EXCEPT !.tlv = tout.tlv,
                                       !.bytes = TLV_as_bytes(tout.tlv[1])])
    /\ UNCHANGED <<unit, overflow_checks, maker, res, hist, ncalls, hdr, buf, wr, rd, tin>>

---------------------------------------------------------------------------

Init == InitMaker \/ InitHeader \/ InitTlv

Next ==
    \/ \E payload \in Payloads : Make(payload)
    \/ HeaderAsBytes
    \/ \E p \in PacketTails : AppendPayload(p)
    \/ HeaderFromBytes
    \/ TryFromBytes
    \/ VecFromBytes
    \/ TlvAsBytes

Spec == Init /\ [][Next]_vars

---------------------------------------------------------------------------
(* Claims about the PacketMaker                                            *)

\* the successor of a u32 modulo 2^32, by cases
NextSeq(n) ==
    IF n = <<65535, 65535>> THEN <<0, 0>>
    ELSE IF n[2] = 65535 THEN <<n[1] + 1, 0>> ELSE <<n[1], n[2] + 1>>

\* the u32 a packet carries at byte offsets i..i+3, as <<hi, lo>>
FieldU32(b, i) == <<b[i + 1] * 256 + b[i + 2], b[i + 3] * 256 + b[i + 4]>>

InRange(o) == RunLen(o.payload) <= 65535 /\ 16 + 8 * Len(o.before.tlvs) <= 255

\* the header part of a packet: its first 16 + 8 * n bytes
Head16(o) == RunTake(o.bytes, 16 + 8 * Len(o.before.tlvs))

\* C1: every in-range assemble call succeeds, its packet carries the seqNo
\* n the assembler held before the call and the assembler holds
\* (n + 1) mod 2^32 afterwards, also at n = 2^32 - 1.
C1_SeqnoWrapsEverywhere ==
    (res.status # "none" /\ InRange(res)) =>
        /\ res.status = "ok"
        /\ FieldU32(Head16(res), 12) = res.before.seqno
        /\ maker.seqno = NextSeq(res.before.seqno)

FailedRange(o) ==
    o.status = "panic" /\ o.err \in {"PayloadLengthOverflow", "HeaderLengthOverflow"}

\* the outcomes since the last successful call before the last call
RECURSIVE FailedRun(_)
FailedRun(h) ==
    IF h = <<>> \/ h[Len(h)].status = "ok" THEN <<>>
    ELSE Append(FailedRun(SubSeq(h, 1, Len(h) - 1)), h[Len(h)])

\* C2: a call that fails on the payload length or on the header length
\* leaves srcid, seqno and tlvs as they were, has written nothing to an
\* output buffer and returns no bytes; a successful call after failed calls
\* carries the seqNo the assembler held before the first of them.
C2_FailedCallLeavesState ==
    /\ FailedRange(res) =>
          /\ maker = res.before
          /\ res.written = <<>>
          /\ res.bytes = <<>>
    /\ (res.status = "ok" /\ FailedRun(hist) # <<>>) =>
          \A i \in 1..Len(FailedRun(hist)) :
              FailedRange(FailedRun(hist)[i]) =>
                  FieldU32(Head16(res), 12) = FailedRun(hist)[i].before.seqno

C2_Witness ==
    /\ Len(hist) = 2
    /\ hist[1].status = "ok"
    /\ hist[2].err = "PayloadLengthOverflow"
    /\ res.status = "ok"
    /\ res.before.seqno # <<0, 0>>

\* C5: a successful assemble returns exactly headerLength + payloadLength
\* bytes: version 1, headerLength, payloadLength = payload byte count,
\* magic 0x810B00FF, srcId, the seqNo before the call (big-endian), then the
\* 8-byte encoding of each static TLV in list order, then the payload.
C5_PacketLayout ==
    LET n == Len(res.before.tlvs)
        b == Head16(res)
    IN res.status = "ok" =>
          /\ RunLen(res.bytes) = 16 + 8 * n + RunLen(res.payload)
          /\ Len(b) = 16 + 8 * n
          /\ b[1] = 1
          /\ b[2] = 16 + 8 * n
          /\ b[3] * 256 + b[4] = RunLen(res.payload)
          /\ SubSeq(b, 5, 8) = <<129, 11, 0, 255>>
          /\ FieldU32(b, 8) = res.before.srcid
          /\ FieldU32(b, 12) = res.before.seqno
          /\ \A k \in 1..n :
                SubSeq(b, 16 + 8 * (k - 1) + 1, 16 + 8 * k)
                    = TLV_as_bytes(res.before.tlvs[k])
          /\ RunDrop(res.bytes, 16 + 8 * n) = res.payload
          /\ RunLen(res.bytes) = b[2] + (b[3] * 256 + b[4])

C5_Witness ==
    /\ res.status = "ok"
    /\ Len(res.before.tlvs) = 3
    /\ res.payload = RunsOf(<<17, 1, 0, 0, 0, 0, 0, 9, 7>>)
    /\ res.before.srcid # <<0, 0>>
    /\ res.before.seqno = <<65535, 65535>>

\* the last successful outcome of h, as a sequence of at most one element
RECURSIVE LastOk(_)
LastOk(h) ==
    IF h = <<>> THEN <<>>
    ELSE IF h[Len(h)].status = "ok" THEN <<h[Len(h)]>>
    ELSE LastOk(SubSeq(h, 1, Len(h) - 1))

\* C6: srcid and the static TLV list never change; two packets of one
\* assembler with equal payloads differ at most in bytes 12..15; consecutive
\* successful calls carry consecutive seqNo values.
C6_OnlySeqnoVaries ==
    /\ res.status # "none" => (maker.srcid = res.before.srcid /\ maker.tlvs = res.before.tlvs)
    /\ res.status = "ok" =>
          /\ \A i \in 1..Len(hist) :
                (hist[i].status = "ok" /\ hist[i].payload = res.payload) =>
                    /\ RunLen(hist[i].bytes) = RunLen(res.bytes)
                    /\ RunTake(hist[i].bytes, 12) = RunTake(res.bytes, 12)
                    /\ RunDrop(hist[i].bytes, 16) = RunDrop(res.bytes, 16)
          /\ LastOk(hist) # <<>> =>
                FieldU32(Head16(res), 12) = NextSeq(FieldU32(Head16(LastOk(hist)[1]), 12))

C6_Witness ==
    /\ Len(hist) = 2 /\ res.status = "ok"
    /\ hist[1].status = "ok" /\ hist[2].status = "ok"
    /\ hist[1].payload = RunsOf(<<255>>) /\ hist[2].payload = RunsOf(<<255>>)
    /\ res.payload = RunsOf(<<255>>)
    /\ FieldU32(Head16(hist[1]), 12) = <<0, 0>>
    /\ FieldU32(Head16(hist[2]), 12) = <<0, 1>>
    /\ FieldU32(Head16(res), 12) = <<0, 2>>

---------------------------------------------------------------------------
(* Claims about the Header                                                 *)

\* the Timestamp values of a TLV list are below 2^48
Below48(tlvs) ==
    \A i \in 1..Len(tlvs) : tlvs[i].kind = "Timestamp" => tlvs[i].val[1] = 0

\* rd is the read of exactly the bytes the last write of hdr produced
ReadOfWritten == rd.status # "none" /\ wr.status = "ok" /\ rd.input = wr.bytes

Normalized(h) == [h EXCEPT !.header_no_tlv.headerlength = 16 + 8 * Len(h.tlvs)]

\* C3 as stated: reading the bytes written for any Header H of at most 29
\* TLVs, with any variant values, yields H with headerLength 16 + 8 * n.
C3_RoundTripAnyValue ==
    ReadOfWritten => (rd.status = "ok" /\ rd.header = <<Normalized(hdr)>>)

\* C3 amended: the same for every Header whose Timestamp values are below
\* 2^48; a Timestamp of 2^48 or more comes back reduced modulo 2^48.
C3_RoundTrip ==
    /\ (ReadOfWritten /\ Below48(hdr.tlvs)) =>
          (rd.status = "ok" /\ rd.header = <<Normalized(hdr)>>)
    /\ ReadOfWritten =>
          /\ rd.status = "ok"
          /\ rd.header[1].header_no_tlv = Normalized(hdr).header_no_tlv
          /\ Len(rd.header[1].tlvs) = Len(hdr.tlvs)
          /\ \A i \in 1..Len(hdr.tlvs) :
                /\ rd.header[1].tlvs[i].kind = hdr.tlvs[i].kind
                /\ hdr.tlvs[i].kind = "Timestamp" =>
                      rd.header[1].tlvs[i].val = <<0>> \o Tail(hdr.tlvs[i].val)
                /\ hdr.tlvs[i].kind # "Timestamp" =>
                      rd.header[1].tlvs[i] = hdr.tlvs[i]

C3_Witness ==
    /\ ReadOfWritten /\ rd.status = "ok"
    /\ Len(hdr.tlvs) = 29
    /\ hdr.header_no_tlv.headerlength = 200
    /\ \E i \in 1..29 : hdr.tlvs[i].kind = "PayloadLabel6Char"
    /\ \E i \in 1..29 : hdr.tlvs[i] = Timestamp(<<0, 65535, 65535, 65535>>)

\* C4: in every buffer Header write or assemble produces, the byte at
\* offset 1 is 16 + 8 * (number of TLVs written), whatever headerlength the
\* Header being written stores.
C4_HeaderLengthByte ==
    /\ wr.status = "ok" =>
          /\ wr.bytes[2] = 16 + 8 * Len(hdr.tlvs)
          /\ Len(wr.bytes) = 16 + 8 * Len(hdr.tlvs)
    /\ res.status = "ok" =>
          /\ Head16(res)[2] = 16 + 8 * Len(res.before.tlvs)
          /\ RunLen(res.bytes) - RunLen(res.payload) = 16 + 8 * Len(res.before.tlvs)

C4_Witness ==
    /\ wr.status = "ok"
    /\ hdr.header_no_tlv.headerlength = 200
    /\ Len(hdr.tlvs) = 2
    /\ wr.bytes[2] = 32

ReadOfSection(b) ==
    LET t == TLV_vec_from_bytes(SubSeq(b, 17, b[2]))
    IN IF t.status = "panic"
       THEN [status |-> "panic", err |-> t.err, header |-> <<>>]
       ELSE [status |-> "ok", err |-> "",
             header |-> <<Header(HeaderNoTLV(b[1], b[2], b[3] * 256 + b[4],
                                             FieldU32(b, 4), FieldU32(b, 8),
                                             FieldU32(b, 12)), t.tlvs)>>]

RdResult == [status |-> rd.status, err |-> rd.err, header |-> rd.header]

\* C8 as stated: TruncatedHeader below 16 bytes, HeaderLengthUnderflow for a
\* headerlength byte below 16, and otherwise the TLV sequence is decoded from
\* exactly the headerlength - 16 bytes after the fixed header.
C8_ReadAlwaysDecodesSection ==
    rd.status # "none" =>
        LET b == rd.input
        IN /\ Len(b) < 16 => (rd.status = "panic" /\ rd.err = "TruncatedHeader")
           /\ (Len(b) >= 16 /\ b[2] < 16) =>
                 (rd.status = "panic"
                  /\ rd.err \in {"HeaderLengthUnderflow", "SliceIndexOutOfRange"})
           /\ (Len(b) >= 16 /\ b[2] >= 16) =>
                 (rd.status = "ok"
                  \/ rd.err \in {"UnknownTlvTag", "UnsupportedTlvLength"})

\* C8 amended: as stated when the buffer holds at least headerlength bytes
\* (the read then equals the read of its first headerlength bytes); a
\* buffer of 16 bytes or more that is shorter than its headerlength byte
\* makes the read fail.  A headerlength byte below 16 fails at the
\* subtraction in a build with overflow checks and at the slicing otherwise.
C8_Read ==
    rd.status # "none" =>
        LET b == rd.input
        IN /\ Len(b) < 16 => (rd.status = "panic" /\ rd.err = "TruncatedHeader")
           /\ (Len(b) >= 16 /\ b[2] < 16) =>
                 (rd.status = "panic"
                  /\ rd.err = IF overflow_checks THEN "HeaderLengthUnderflow"
                              ELSE "SliceIndexOutOfRange")
           /\ (Len(b) >= 16 /\ b[2] >= 16 /\ Len(b) < b[2]) =>
                 (rd.status = "panic" /\ rd.err = "SliceIndexOutOfRange")
           /\ (Len(b) >= 16 /\ b[2] >= 16 /\ Len(b) >= b[2]) =>
                 /\ RdResult = ReadOfSection(b)
                 /\ RdResult = Header_from_bytes(SubSeq(b, 1, b[2]), overflow_checks)

C8_Witness ==
    /\ rd.status = "ok"
    /\ wr.status = "ok"
    /\ rd.input = wr.bytes \o GoodSlot
    /\ Len(rd.header[1].tlvs) = 2

---------------------------------------------------------------------------
(* Claims about the TLV codec                                              *)

KnownTags == {0, 17, 34, 35, 41}

\* what is wrong with an 8-byte slot, "" if nothing
SlotError(slot) ==
    IF slot[1] \notin KnownTags THEN "UnknownTlvTag"
    ELSE IF slot[1] = 41 /\ slot[2] # 1 THEN "UnsupportedTlvLength"
    ELSE ""

SlotAt(b, i) == SubSeq(b, 8 * (i - 1) + 1, 8 * i)

\* C9: a single decode of fewer than 8 bytes returns None and the buffer,
\* of a well-formed slot the TLV and the buffer less its first 8 bytes; a
\* sequence decode returns one TLV per whole slot, in order, unless a slot
\* has an unknown tag or is a PayloadLabel with a length unit other than 1:
\* then it fails with the error of the first such slot and returns no list.
C9_SequenceDecode ==
    /\ tout.op = "try_from_bytes" =>
          LET b == tout.arg
          IN /\ Len(b) < 8 =>
                   (tout.status = "ok" /\ tout.tlv = <<>> /\ tout.rest = b /\ tin = b)
             /\ (Len(b) >= 8 /\ SlotError(SlotAt(b, 1)) = "") =>
                   /\ tout.status = "ok" /\ Len(tout.tlv) = 1
                   /\ TLV_tag(tout.tlv[1]) = b[1]
                   /\ tout.rest = SubSeq(b, 9, Len(b))
                   /\ Len(tout.rest) = Len(b) - 8
             /\ (Len(b) >= 8 /\ SlotError(SlotAt(b, 1)) # "") =>
                   (tout.status = "panic" /\ tout.err = SlotError(SlotAt(b, 1)))
    /\ tout.op = "vec_from_bytes" =>
          LET b == tout.arg
              n == Len(b) \div 8
              bad == {i \in 1..n : SlotError(SlotAt(b, i)) # ""}
          IN /\ tout.status \in {"ok", "panic"}
             /\ bad = {} =>
                   /\ tout.status = "ok"
                   /\ Len(tout.tlvs) = n
                   /\ \A i \in 1..n :
                         <<tout.tlvs[i]>> = TLV_try_from_bytes(SlotAt(b, i)).tlv
             /\ bad # {} =>
                   /\ tout.status = "panic"
                   /\ tout.tlvs = <<>>
                   /\ \E i \in bad :
                         /\ \A j \in bad : i <= j
                         /\ tout.err = SlotError(SlotAt(b, i))

C9_Witness ==
    /\ tout.op = "vec_from_bytes"
    /\ Len(tout.arg) = 19
    /\ SlotError(SlotAt(tout.arg, 1)) = ""
    /\ SlotError(SlotAt(tout.arg, 2)) = "UnsupportedTlvLength"
    /\ tout.status = "panic"

\* the 1-based positions of a slot that decode ignores, by tag
Ignored(tag) ==
    CASE tag = 0 -> 2..8
      [] tag = 35 -> 2..4
      [] tag \in {17, 34} -> {2}
      [] OTHER -> {}

\* C10: for a slot b that decodes to t, decode(encode(t)) = t, a Timestamp
\* t is below 2^48, and encode(t) differs from b only in bytes decode
\* ignores, which it sets to length unit 1 and zeros.
C10_DecodeCanonicalizes ==
    /\ (tout.op = "try_from_bytes" /\ tout.status = "ok" /\ tout.tlv # <<>>) =>
          LET t == tout.tlv[1]
              d == TLV_try_from_bytes(TLV_as_bytes(t))
          IN /\ d.status = "ok" /\ d.tlv = <<t>> /\ d.rest = <<>>
             /\ t.kind = "Timestamp" => t.val[1] = 0
    /\ tout.op = "as_bytes" =>
          LET b == tout.slot
              e == tout.bytes
          IN /\ Len(e) = 8
             /\ \A k \in 1..8 : e[k] # b[k] => k \in Ignored(b[1])
             /\ \A k \in Ignored(b[1]) : e[k] = IF k = 2 THEN 1 ELSE 0

C10_Witness ==
    /\ tout.op = "as_bytes"
    /\ tout.slot = OddSlot
    /\ tout.bytes = <<35, 1, 0, 0, 0, 0, 0, 16>>


===========================================================================
